---- MODULE Spec2Model ----
(***************************************************************************)
(* Model of the Pexels MCP server core: the DownloadManager (bounded       *)
(* concurrent downloads over a metadata.json ledger and an in-memory set   *)
(* of downloaded ids), the OrganizationManager (categorization pass over   *)
(* the same ledger) and the CacheManager (in-memory cache with expiry).    *)
(* Every await on I/O is an interleaving point; everything between two     *)
(* awaits is one atomic step.  The CacheManager shares no state with the   *)
(* other two, so it is explored under a specification of its own           *)
(* (CacheSpec); the functions that read no state are explored over their   *)
(* inputs under PureSpec; the OrganizationManager alone, over ledgers of   *)
(* several records and every kind of scheme, is explored under OrgSpec.    *)
(***************************************************************************)
EXTENDS Integers, Sequences, FiniteSets, TLC

(***************************************************************************)
(* Bounds of the exploration.                                              *)
(***************************************************************************)
MaxId == 3
MaxN == 2
MaxTasks == 2
MaxBatch == 3
MaxCalls == 2
MaxFiles == 3
MaxTags == 2
MaxTicks == 3
MaxRecords == 2

VARIABLES
  maxConcurrent,     \* capacity handed to pLimit by the constructor
  metadataFile,      \* metadata.json: <<>> when absent, <<records>> when present
  downloadedVideos,  \* DownloadManager.downloadedVideos (in-memory set of ids)
  loadPc,            \* the unawaited initialize() of the constructor
  tasks,             \* every downloadVideo invocation, in creation order
  queue,             \* p-limit's queue of not yet started task numbers
  activeCount,       \* p-limit's activeCount
  batches,           \* every batchDownload invocation
  org,               \* the organizeByCategory invocation in progress
  prev,              \* history: the last returned fetch and the fetch following it
  files,             \* the paths of the video files on disk
  dirs,              \* the category directories below the download root
  pview,             \* the last previewCategorization call and its outcome
  duration,          \* CacheManager.duration: the default ttl, in seconds
  cache,             \* CacheManager.cache: key -> <<>> (no entry) or <<entry>>
  now,               \* Date.now(), in ms since the CacheManager was constructed
  nextSweep,         \* the time at which the setInterval timer fires next
  ticks,             \* how many times the clock has been advanced
  asked,             \* history: per key, the last set not followed by delete or clear
  last,              \* history: the last cache operation and what it returned
  call               \* the last application of a function that reads no state

cacheVars == <<duration, cache, now, nextSweep, ticks, asked, last>>

vars == <<maxConcurrent, metadataFile, downloadedVideos, loadPc, tasks, queue,
          activeCount, batches, org, prev, files, dirs, pview, cacheVars, call>>

Ids == 1..MaxId

Min(a, b) == IF a < b THEN a ELSE b

Range(s) == {s[k] : k \in 1..Len(s)}

\* Array.prototype.filter with the predicate given as the set of kept values
RECURSIVE SelectIn(_, _)
SelectIn(s, keep) ==
  IF s = <<>> THEN <<>>
  ELSE IF Head(s) \in keep THEN <<Head(s)>> \o SelectIn(Tail(s), keep)
  ELSE SelectIn(Tail(s), keep)

(***************************************************************************)
(* Provider data (PexelsVideo) of the assets the callers pass in.          *)
(***************************************************************************)
\* durations are kept in hundredths of a second
Seconds(n) == n * 100

VideoFile(q, w, f) ==
  [quality |-> q, width |-> w, height |-> w, fps |-> f, file_type |-> "video/mp4"]

VideoFilesOf(i) ==
  IF i % 3 = 0 THEN <<>>
  ELSE IF i % 3 = 1 THEN <<VideoFile("hd", 3, 30), VideoFile("sd", 2, 25)>>
  ELSE <<VideoFile("sd", 2, 30), VideoFile("mobile", 1, 25)>>

Video(i) ==
  [id |-> i, width |-> i, height |-> i, duration |-> Seconds((20 * i) - 10),
   tags |-> IF i % 3 = 1 THEN <<"Water", "slow">>
            ELSE IF i % 3 = 2 THEN <<>> ELSE <<"bright">>,
   video_files |-> VideoFilesOf(i)]

(***************************************************************************)
(* DownloadManager.selectBestQuality: <<>> stands for undefined.           *)
(***************************************************************************)
qualityOrder_hdFirst(quality) == <<"hd", "sd", "mobile">>

qualityOrder(quality) ==
  IF quality = "sd" THEN <<"sd", "hd", "mobile">>
  ELSE IF quality = "mobile" THEN <<"mobile", "sd", "hd">>
  ELSE <<"hd", "sd", "mobile">>

\* Array.prototype.find on the quality field
FindQuality(videoFiles, q) ==
  LET hits == {k \in 1..Len(videoFiles) : videoFiles[k].quality = q}
  IN IF hits = {} THEN <<>>
     ELSE <<videoFiles[CHOOSE k \in hits : \A m \in hits : k <= m]>>

selectBestQuality(videoFiles, quality) ==
  LET pq == qualityOrder(quality)
      found == {k \in 1..Len(pq) : FindQuality(videoFiles, pq[k]) # <<>>}
  IN IF found # {}
     THEN FindQuality(videoFiles, pq[CHOOSE k \in found : \A m \in found : k <= m])
     ELSE IF videoFiles = <<>> THEN <<>> ELSE <<videoFiles[1]>>

\* options.quality || 'hd' ; "" stands for an absent option
QualityOrHd(q) == IF q = "" THEN "hd" ELSE q

(***************************************************************************)
(* Paths are <<directory below the download root, filename>>; <<>> is ''.  *)
(***************************************************************************)
generateFilename(vid) == vid

LocalPath(category, filename) == <<category, filename>>

\* fs.stat(localPath).size of the written rendition
StatSize(file) == file.width * 100000

(***************************************************************************)
(* VideoMetadata (one ledger record) and DownloadResult.                   *)
(***************************************************************************)
VideoMetadata(vid, path, size, category) ==
  [id |-> vid, filename |-> generateFilename(vid), local_path |-> path,
   file_size |-> size, category |-> category,
   pexels_metadata |-> [width |-> Video(vid).width, height |-> Video(vid).height,
                        duration |-> Video(vid).duration, tags |-> Video(vid).tags]]

NoMeta == [width |-> 0, height |-> 0, duration |-> 0, fps |-> 0, codec |-> "", bitrate |-> ""]

NoRes ==
  [video_id |-> 0, local_path |-> <<>>, file_size |-> 0, download_time |-> 0,
   metadata |-> NoMeta, status |-> "none", error |-> ""]

extractCodec(fileType) == IF fileType = "video/mp4" THEN "h264" ELSE "unknown"

\* Math.round(fileSize * 8 / duration / 1000) kbps; "unknown" when duration is 0
estimateBitrate(fileSize, hundredths) ==
  IF hundredths = 0 THEN "unknown"
  ELSE ToString(((2 * fileSize * 8) + (hundredths * 10)) \div (2 * hundredths * 10))
         \o "kbps"

\* download_time: 0 is the literal 0, 1 stands for a measured elapsed time
SuccessResult(vid, path, size, file) ==
  [video_id |-> vid, local_path |-> path, file_size |-> size, download_time |-> 1,
   metadata |-> [width |-> file.width, height |-> file.height,
                 duration |-> Video(vid).duration, fps |-> file.fps,
                 codec |-> extractCodec(file.file_type),
                 bitrate |-> estimateBitrate(size, Video(vid).duration)],
   status |-> "success", error |-> ""]

FailedResult(vid, message) ==
  [video_id |-> vid, local_path |-> <<>>, file_size |-> 0, download_time |-> 1,
   metadata |-> NoMeta, status |-> "failed", error |-> message]

ExistingResult_fresh(vid, r) ==
  [video_id |-> vid, local_path |-> LocalPath("", generateFilename(vid)),
   file_size |-> r.file_size, download_time |-> 0,
   metadata |-> [width |-> r.pexels_metadata.width, height |-> r.pexels_metadata.height,
                 duration |-> r.pexels_metadata.duration, fps |-> 0,
                 codec |-> "unknown", bitrate |-> "unknown"],
   status |-> "success", error |-> ""]

ExistingResult(vid, r) ==
  [video_id |-> vid, local_path |-> r.local_path, file_size |-> r.file_size,
   download_time |-> 0,
   metadata |-> [width |-> r.pexels_metadata.width, height |-> r.pexels_metadata.height,
                 duration |-> r.pexels_metadata.duration, fps |-> 0,
                 codec |-> "unknown", bitrate |-> "unknown"],
   status |-> "success", error |-> ""]

(***************************************************************************)
(* The ledger file.                                                        *)
(***************************************************************************)
FileExists == metadataFile # <<>>

Ledger == IF FileExists THEN metadataFile[1] ELSE <<>>

RecordsOf(list, vid) == {k \in 1..Len(list) : list[k].id = vid}

HasRecord(vid) == RecordsOf(Ledger, vid) # {}

\* metadata.filter(video => video.id !== id)
RECURSIVE WithoutId(_, _)
WithoutId(list, vid) ==
  IF list = <<>> THEN <<>>
  ELSE IF Head(list).id = vid THEN WithoutId(Tail(list), vid)
  ELSE <<Head(list)>> \o WithoutId(Tail(list), vid)

\* metadata.find(v => v.id === videoId)
FindRecord(list, vid) ==
  LET hits == RecordsOf(list, vid)
  IN IF hits = {} THEN <<>> ELSE <<list[CHOOSE k \in hits : \A m \in hits : k <= m]>>

(***************************************************************************)
(* DownloadManager.filterVideos.  videos is the list of candidate ids,     *)
(* filter_criteria is <<>> when absent and <<criteria>> when present; an   *)
(* absent numeric criterion is 0 and an absent exclude list is {}.         *)
(***************************************************************************)
PassesCriteria_excludeIgnored(video, criteria, known) ==
  /\ ~(criteria.min_width # 0 /\ video.width < criteria.min_width)
  /\ ~(criteria.min_height # 0 /\ video.height < criteria.min_height)
  /\ (criteria.preferred_fps # 0 =>
        \E k \in 1..Len(video.video_files) : video.video_files[k].fps = criteria.preferred_fps)
  /\ video.id \notin known

PassesCriteria(video, criteria, known) ==
  /\ ~(criteria.min_width # 0 /\ video.width < criteria.min_width)
  /\ ~(criteria.min_height # 0 /\ video.height < criteria.min_height)
  /\ (criteria.preferred_fps # 0 =>
        \E k \in 1..Len(video.video_files) : video.video_files[k].fps = criteria.preferred_fps)
  /\ video.id \notin criteria.exclude_ids
  /\ video.id \notin known

filterVideos(videos, options, known) ==
  IF options.filter_criteria = <<>> THEN videos
  ELSE SelectIn(videos, {i \in Range(videos) :
                           PassesCriteria(Video(i), options.filter_criteria[1], known)})

DefaultMaxVideos == 10

\* options.max_videos || 10, then slice(0, maxVideos)
videosToDownload(videos, options, known) ==
  LET filtered == filterVideos(videos, options, known)
      maxVideos == IF options.max_videos = 0 THEN DefaultMaxVideos ELSE options.max_videos
  IN SubSeq(filtered, 1, Min(Len(filtered), maxVideos))

(***************************************************************************)
(* One downloadVideo invocation.  pc is the await it is suspended at:      *)
(*   queued     created by batchDownload, waiting in p-limit's queue       *)
(*   existing   getExistingDownloadResult awaits fs.readJson               *)
(*   ensureDir  awaits fs.ensureDir(categoryPath)                          *)
(*   transfer   awaits the axios response and the writer's finish          *)
(*   saveRead   saveMetadata awaits fs.pathExists / fs.readJson            *)
(*   saveWrite  saveMetadata awaits fs.writeJson                           *)
(*   settled    the promise is fulfilled with res                          *)
(*   rejected   the promise is rejected                                    *)
(*   hung       the writer neither finishes nor fails                      *)
(* permit says that the task holds one of the limiter's slots.  The rest   *)
(* is history: hadRec, whether the ledger had a record of vid when         *)
(* downloadVideo started; skip, whether it took the already-downloaded     *)
(* branch; net, whether it started a network transfer; fault, whether a    *)
(* read or write of the ledger file failed under it; ord, how many items   *)
(* of its batch had a result before it got its own.                        *)
(***************************************************************************)
NewTask(vid, b, quality, category) ==
  [vid |-> vid, batch |-> b, pc |-> "queued", quality |-> quality,
   category |-> category, permit |-> FALSE, hadRec |-> FALSE, skip |-> FALSE,
   net |-> FALSE, fault |-> FALSE, ord |-> 0, snap |-> <<>>, res |-> NoRes]

SelectedFile(tk) == selectBestQuality(Video(tk.vid).video_files, QualityOrHd(tk.quality))

TaskPath(tk) == LocalPath(tk.category, generateFilename(tk.vid))

TaskSize(tk) == StatSize(SelectedFile(tk)[1])

\* how many items of batch b have a result already
Arrived(b) ==
  IF b = 0 THEN 0
  ELSE Cardinality({u \in 1..Len(tasks) : tasks[u].batch = b /\ tasks[u].pc = "settled"})

\* downloadVideo from its first line to its first await
Begin(tk) ==
  LET t1 == [tk EXCEPT !.hadRec = HasRecord(tk.vid)]
  IN IF tk.vid \in downloadedVideos THEN [t1 EXCEPT !.pc = "existing", !.skip = TRUE]
     ELSE IF SelectedFile(tk) = <<>>
     THEN [t1 EXCEPT !.pc = "settled", !.ord = Arrived(tk.batch),
                     !.res = FailedResult(tk.vid, "No suitable video file found")]
     ELSE [t1 EXCEPT !.pc = "ensureDir"]

\* p-limit run(): activeCount++ and call fn
Start(tk) == [Begin(tk) EXCEPT !.permit = TRUE]

Finished(tk) == tk.pc \in {"settled", "rejected"}

(***************************************************************************)
(* History for two fetches in a row: first is the result of the last      *)
(* returned direct fetch, clean says that no ledger read or write failed   *)
(* under it, second is the task of the fetch called right after it; any    *)
(* step of anything else resets it.                                        *)
(***************************************************************************)
NoPrev == [first |-> NoRes, clean |-> FALSE, second |-> 0]

Touch(t) == IF prev.second = t THEN prev ELSE NoPrev

Returned(t, res, fault) ==
  IF prev.second = t THEN prev
  ELSE IF tasks[t].batch = 0 /\ res.status = "success"
  THEN [first |-> res, clean |-> ~fault, second |-> 0]
  ELSE NoPrev

Follows(vid, n) ==
  LET base == IF prev.second = 0 THEN prev
              ELSE IF tasks[prev.second].pc = "settled"
              THEN [first |-> tasks[prev.second].res,
                    clean |-> ~tasks[prev.second].fault, second |-> 0]
              ELSE NoPrev
  IN IF base.first.status = "success" /\ base.first.video_id = vid
     THEN [base EXCEPT !.second = n] ELSE NoPrev

\* the number of API calls made so far
Calls ==
  Len(batches) + Cardinality({t \in 1..Len(tasks) : tasks[t].batch = 0}) + org.runs
    + pview.n

(***************************************************************************)
(* Construction.                                                           *)
(***************************************************************************)
\* the ledger found at construction is absent or holds one earlier download
InitIds == {1, MaxId}

InitRecord(i) == VideoMetadata(i, LocalPath("", generateFilename(i)), 300000, "")

\* organizeByCategory: scheme and rules are the locals of the run, read is the
\* list as readJson returned it, meta the list being mutated, i the loop
\* position; decided (the category computed for each record so far), failed
\* (the ids whose move failed), fault (what the outer catch caught) and
\* before (scheme and rules of the run before this one when that run
\* returned success, and whether it was clean: no move of it failed) are
\* history.
NoOrg ==
  [pc |-> "idle", scheme |-> "", rules |-> <<>>, read |-> <<>>, meta |-> <<>>,
   i |-> 0, decided |-> <<>>, failed |-> {}, fault |-> "", before |-> <<>>,
   runs |-> 0,
   result |-> [status |-> "success", moved_files |-> 0,
               categories_created |-> <<>>, errors |-> <<>>]]

NoPreview == [status |-> "none", options |-> <<>>, read |-> <<>>, out |-> <<>>, n |-> 0]

DownloadInit ==
  /\ maxConcurrent \in 1..MaxN
  /\ metadataFile \in {<<>>} \cup {<< <<InitRecord(i)>> >> : i \in InitIds}
  /\ downloadedVideos = {}
  /\ loadPc = "pending"
  /\ tasks = <<>>
  /\ queue = <<>>
  /\ activeCount = 0
  /\ batches = <<>>
  /\ org = NoOrg
  /\ prev = NoPrev
  /\ files = {Ledger[k].local_path : k \in 1..Len(Ledger)}
  /\ dirs = {}
  /\ pview = NoPreview

\* initialize() -> loadMetadata(): runs some time after the constructor returned
LoadMetadata ==
  /\ loadPc = "pending"
  /\ loadPc' = "done"
  /\ \/ downloadedVideos' = downloadedVideos \cup {Ledger[k].id : k \in 1..Len(Ledger)}
     \/ FileExists /\ downloadedVideos' = downloadedVideos   \* readJson throws, caught
  /\ prev' = NoPrev
  /\ UNCHANGED <<files, dirs, pview, cacheVars, call>>
  /\ UNCHANGED <<maxConcurrent, metadataFile, tasks, queue, activeCount, batches, org>>

(***************************************************************************)
(* downloadVideo called directly (handleDownloadVideo): no permit.         *)
(***************************************************************************)
FetchOptions ==
  {[quality |-> "", category |-> ""], [quality |-> "mobile", category |-> "short"]}

Fetch(vid, quality, category) ==
  /\ Calls < MaxCalls
  /\ Len(tasks) < MaxTasks
  /\ tasks' = Append(tasks, Begin(NewTask(vid, 0, quality, category)))
  /\ prev' = Follows(vid, Len(tasks) + 1)
  /\ UNCHANGED <<files, dirs, pview, cacheVars, call>>
  /\ UNCHANGED <<maxConcurrent, metadataFile, downloadedVideos, loadPc, queue,
                 activeCount, batches, org>>

(***************************************************************************)
(* batchDownload: filter, truncate, hand every item to the limiter; the    *)
(* limiter starts as many as it has free slots.                            *)
(***************************************************************************)
FreeSlots_ungated == MaxTasks

\* how many queued tasks pass the test activeCount < concurrency
FreeSlots == IF activeCount < maxConcurrent THEN maxConcurrent - activeCount ELSE 0

BatchDownload(videos, options) ==
  LET toDl == videosToDownload(videos, options, downloadedVideos)
      base == Len(tasks)
      created == [k \in 1..Len(toDl) |->
                    NewTask(toDl[k], Len(batches) + 1, options.quality, options.category)]
      all == tasks \o created
      q1 == queue \o [k \in 1..Len(toDl) |-> base + k]
      nstart == Min(Len(toDl), Min(Len(q1), FreeSlots))
      starting == {q1[k] : k \in 1..nstart}
  IN /\ Calls < MaxCalls
     /\ base + Len(toDl) <= MaxTasks
     /\ LET started == [t \in 1..Len(all) |->
                           IF t \in starting THEN Start(all[t]) ELSE all[t]]
        IN tasks' = [t \in 1..Len(all) |->
                       IF t \in starting /\ started[t].pc = "settled"
                       THEN [started[t] EXCEPT !.ord =
                               Cardinality({u \in starting :
                                              u < t /\ started[u].pc = "settled"})]
                       ELSE started[t]]
     /\ queue' = SubSeq(q1, nstart + 1, Len(q1))
     /\ activeCount' = activeCount + nstart
     /\ batches' = Append(batches,
                     [videos |-> videos, options |-> options,
                      items |-> [k \in 1..Len(toDl) |-> base + k],
                      ledger0 |-> Ledger, known0 |-> downloadedVideos])
     /\ prev' = NoPrev
     /\ UNCHANGED <<files, dirs, pview, cacheVars, call>>
     /\ UNCHANGED <<maxConcurrent, metadataFile, downloadedVideos, loadPc, org>>

\* p-limit next(): the settled task gives its slot to the head of the queue
Release(t) ==
  /\ tasks[t].permit
  /\ Finished(tasks[t])
  /\ IF queue = <<>>
     THEN /\ tasks' = [tasks EXCEPT ![t].permit = FALSE]
          /\ activeCount' = activeCount - 1
          /\ queue' = queue
     ELSE /\ tasks' = [tasks EXCEPT ![t].permit = FALSE,
                                    ![Head(queue)] = Start(tasks[Head(queue)])]
          /\ activeCount' = activeCount
          /\ queue' = Tail(queue)
  /\ prev' = NoPrev
  /\ UNCHANGED <<files, dirs, pview, cacheVars, call>>
  /\ UNCHANGED <<maxConcurrent, metadataFile, downloadedVideos, loadPc, batches, org>>

BatchStatus_failfast(b) ==
  IF \E k \in 1..Len(batches[b].items) :
       \/ tasks[batches[b].items[k]].pc = "rejected"
       \/ tasks[batches[b].items[k]].res.status = "failed"
  THEN "rejected"
  ELSE IF \A k \in 1..Len(batches[b].items) : tasks[batches[b].items[k]].pc = "settled"
  THEN "returned"
  ELSE "running"

\* await Promise.all(downloadPromises)
BatchStatus(b) ==
  IF \E k \in 1..Len(batches[b].items) : tasks[batches[b].items[k]].pc = "rejected"
  THEN "rejected"
  ELSE IF \A k \in 1..Len(batches[b].items) : tasks[batches[b].items[k]].pc = "settled"
  THEN "returned"
  ELSE "running"

BatchResults_arrival(b) ==
  LET items == batches[b].items
  IN IF \A k \in 1..Len(items) :
          \E t \in Range(items) : tasks[t].pc = "settled" /\ tasks[t].ord = k - 1
     THEN [k \in 1..Len(items) |->
             tasks[CHOOSE t \in Range(items) : tasks[t].ord = k - 1].res]
     ELSE [k \in 1..Len(items) |-> tasks[items[k]].res]

\* the array Promise.all resolves with: the value of promise k at index k
BatchResults(b) == [k \in 1..Len(batches[b].items) |-> tasks[batches[b].items[k]].res]

(***************************************************************************)
(* The steps of one downloadVideo.                                         *)
(***************************************************************************)
Settle(t, res, fault) ==
  /\ tasks' = [tasks EXCEPT ![t].pc = "settled", ![t].res = res, ![t].snap = <<>>,
                            ![t].fault = fault, ![t].ord = Arrived(tasks[t].batch)]
  /\ prev' = Returned(t, res, fault)

EnsureDir(t) ==
  /\ tasks[t].pc = "ensureDir"
  /\ \/ /\ tasks' = [tasks EXCEPT ![t].pc = "transfer", ![t].net = TRUE]
        /\ dirs' = IF tasks[t].category = "" THEN dirs ELSE dirs \cup {tasks[t].category}
        /\ prev' = Touch(t)
     \/ /\ Settle(t, FailedResult(tasks[t].vid, "ensureDir failed"), FALSE)
        /\ dirs' = dirs
  /\ UNCHANGED <<files, pview, cacheVars, call>>
  /\ UNCHANGED <<maxConcurrent, metadataFile, downloadedVideos, loadPc, queue,
                 activeCount, batches, org>>

Transfer(t) ==
  /\ tasks[t].pc = "transfer"
  /\ \/ /\ tasks' = [tasks EXCEPT ![t].pc = "saveRead"]
        /\ files' = files \cup {TaskPath(tasks[t])}
        /\ prev' = Touch(t)
     \/ /\ Settle(t, FailedResult(tasks[t].vid, "transfer failed"), FALSE)
        /\ files' = files
     \/ /\ tasks' = [tasks EXCEPT ![t].pc = "hung"]
        /\ files' = files \cup {TaskPath(tasks[t])}
        /\ prev' = Touch(t)
  /\ UNCHANGED <<dirs, pview, cacheVars, call>>
  /\ UNCHANGED <<maxConcurrent, metadataFile, downloadedVideos, loadPc, queue,
                 activeCount, batches, org>>

TaskResult(tk) == SuccessResult(tk.vid, TaskPath(tk), TaskSize(tk), SelectedFile(tk)[1])

TaskRecord_uncategorized(tk) == VideoMetadata(tk.vid, TaskPath(tk), TaskSize(tk), "")

TaskRecord(tk) == VideoMetadata(tk.vid, TaskPath(tk), TaskSize(tk), tk.category)

SaveRead(t) ==
  /\ tasks[t].pc = "saveRead"
  /\ \/ /\ tasks' = [tasks EXCEPT ![t].pc = "saveWrite", ![t].snap = Ledger]
        /\ prev' = Touch(t)
     \/ FileExists /\ Settle(t, TaskResult(tasks[t]), TRUE)   \* readJson throws, caught
  /\ UNCHANGED <<files, dirs, pview, cacheVars, call>>
  /\ UNCHANGED <<maxConcurrent, metadataFile, downloadedVideos, loadPc, queue,
                 activeCount, batches, org>>

saveMetadata_keep(list, videoMetadata) == Append(list, videoMetadata)

saveMetadata(list, videoMetadata) == Append(WithoutId(list, videoMetadata.id), videoMetadata)

SaveWrite(t) ==
  /\ tasks[t].pc = "saveWrite"
  /\ \/ /\ metadataFile' = <<saveMetadata(tasks[t].snap, TaskRecord(tasks[t]))>>
        /\ downloadedVideos' = downloadedVideos \cup {tasks[t].vid}
        /\ Settle(t, TaskResult(tasks[t]), FALSE)
     \/ /\ UNCHANGED <<metadataFile, downloadedVideos>>   \* writeJson throws, caught
        /\ Settle(t, TaskResult(tasks[t]), TRUE)
  /\ UNCHANGED <<files, dirs, pview, cacheVars, call>>
  /\ UNCHANGED <<maxConcurrent, loadPc, queue, activeCount, batches, org>>

\* getExistingDownloadResult: its throw is returned, not awaited, by downloadVideo
ReadExisting(t) ==
  /\ tasks[t].pc = "existing"
  /\ \/ /\ FindRecord(Ledger, tasks[t].vid) # <<>>
        /\ Settle(t, ExistingResult(tasks[t].vid, FindRecord(Ledger, tasks[t].vid)[1]), FALSE)
     \/ /\ FindRecord(Ledger, tasks[t].vid) = <<>>        \* no record: throw
        /\ tasks' = [tasks EXCEPT ![t].pc = "rejected"]
        /\ prev' = Touch(t)
     \/ /\ FindRecord(Ledger, tasks[t].vid) # <<>>        \* readJson throws: throw
        /\ tasks' = [tasks EXCEPT ![t].pc = "rejected", ![t].fault = TRUE]
        /\ prev' = Touch(t)
  /\ UNCHANGED <<files, dirs, pview, cacheVars, call>>
  /\ UNCHANGED <<maxConcurrent, metadataFile, downloadedVideos, loadPc, queue,
                 activeCount, batches, org>>

(***************************************************************************)
(* OrganizationManager.  A rule set is <<>> when undefined, else           *)
(* <<sequence of [category, keywords]>> in Object.entries order.           *)
(***************************************************************************)
Rule(category, keywords) == [category |-> category, keywords |-> keywords]

organizationSchemes(scheme) ==
  IF scheme = "emotion"
  THEN << << Rule("calm", <<"water", "clouds", "slow", "peaceful", "serene", "gentle",
                            "soft", "quiet">>),
             Rule("energetic", <<"fast", "bright", "motion", "dynamic", "active",
                                 "vibrant", "quick", "rapid">>),
             Rule("mysterious", <<"dark", "smoke", "shadow", "fog", "night",
                                  "mysterious", "abstract", "enigmatic">>),
             Rule("happy", <<"colorful", "sunny", "playful", "light", "bright",
                             "cheerful", "joyful", "positive">>),
             Rule("dramatic", <<"storm", "lightning", "intense", "powerful",
                                "dramatic", "bold", "striking">>) >> >>
  ELSE IF scheme = "energy"
  THEN << << Rule("high", <<"fast", "rapid", "quick", "dynamic", "active", "intense",
                            "powerful", "energetic">>),
             Rule("medium", <<"moderate", "steady", "balanced", "consistent",
                              "regular", "normal">>),
             Rule("low", <<"slow", "calm", "peaceful", "gentle", "soft", "quiet",
                           "relaxed", "serene">>) >> >>
  ELSE IF scheme = "color"
  THEN << << Rule("warm", <<"red", "orange", "yellow", "warm", "sunset", "fire",
                            "golden">>),
             Rule("cool", <<"blue", "green", "purple", "cool", "ocean", "sky", "ice">>),
             Rule("neutral", <<"black", "white", "gray", "grey", "monochrome",
                               "neutral">>),
             Rule("vibrant", <<"colorful", "bright", "vivid", "saturated", "rainbow",
                               "neon">>) >> >>
  ELSE IF scheme = "duration"
  THEN << << Rule("short", <<>>), Rule("medium", <<>>), Rule("long", <<>>) >> >>
  ELSE <<>>

\* options.organization_scheme || 'emotion'; "" stands for an absent scheme
SchemeOf(options) ==
  IF options.organization_scheme = "" THEN "emotion" ELSE options.organization_scheme

\* custom_rules is <<>> when absent, <<rules>> when supplied
RulesOf(options) ==
  IF SchemeOf(options) = "custom" THEN options.custom_rules
  ELSE organizationSchemes(SchemeOf(options))

\* String.prototype.toLowerCase
LowerOf ==
  [A |-> "a", B |-> "b", C |-> "c", D |-> "d", E |-> "e", F |-> "f", G |-> "g",
   H |-> "h", I |-> "i", J |-> "j", K |-> "k", L |-> "l", M |-> "m", N |-> "n",
   O |-> "o", P |-> "p", Q |-> "q", R |-> "r", S |-> "s", T |-> "t", U |-> "u",
   V |-> "v", W |-> "w", X |-> "x", Y |-> "y", Z |-> "z"]

LowerChar(c) == IF c \in DOMAIN LowerOf THEN LowerOf[c] ELSE c

RECURSIVE toLowerCase(_)
toLowerCase(str) ==
  IF Len(str) = 0 THEN ""
  ELSE LowerChar(SubSeq(str, 1, 1)) \o toLowerCase(SubSeq(str, 2, Len(str)))

\* Array.prototype.join
RECURSIVE join(_, _)
join(strs, sep) ==
  IF strs = <<>> THEN ""
  ELSE IF Len(strs) = 1 THEN strs[1]
  ELSE strs[1] \o sep \o join(Tail(strs), sep)

\* String.prototype.includes
includes(str, part) ==
  \E k \in 1..(Len(str) - Len(part) + 1) : SubSeq(str, k, k + Len(part) - 1) = part

calculateCategoryScore(tags, keywords) ==
  Cardinality({k \in 1..Len(keywords) : includes(tags, toLowerCase(keywords[k]))})

Better_orEqual(score, bestScore) == score >= bestScore

\* the test of the loop over the categories
Better(score, bestScore) == score > bestScore

\* the loop over Object.entries(rules): best is [category, score] so far
RECURSIVE BestMatch(_, _, _)
BestMatch(entries, allTags, best) ==
  IF entries = <<>> THEN best
  ELSE LET score == calculateCategoryScore(allTags, Head(entries).keywords)
       IN BestMatch(Tail(entries), allTags,
                    IF Better(score, best.score)
                    THEN [category |-> <<Head(entries).category>>, score |-> score]
                    ELSE best)

durationCategory_exclusive(d) ==
  IF d < Seconds(15) THEN "short" ELSE IF d < Seconds(45) THEN "medium" ELSE "long"

\* the special handling of the duration scheme
durationCategory(d) ==
  IF d <= Seconds(15) THEN "short" ELSE IF d <= Seconds(45) THEN "medium" ELSE "long"

categorizeVideo_fallback(video, rules, scheme) ==
  IF scheme = "duration"
  THEN <<durationCategory(video.pexels_metadata.duration)>>
  ELSE LET allTags == toLowerCase(join(video.pexels_metadata.tags, " "))
           best == BestMatch(rules, allTags, [category |-> <<>>, score |-> 0])
       IN IF best.score > 0 THEN best.category ELSE <<rules[1].category>>

\* categorizeVideo: <<>> stands for null; rules is the list of entries
categorizeVideo(video, rules, scheme) ==
  IF scheme = "duration"
  THEN <<durationCategory(video.pexels_metadata.duration)>>
  ELSE LET allTags == toLowerCase(join(video.pexels_metadata.tags, " "))
           best == BestMatch(rules, allTags, [category |-> <<>>, score |-> 0])
       IN IF best.score > 0 THEN best.category ELSE <<>>

\* the outer catch of organizeByCategory
OrgFail(fault, message) ==
  [org EXCEPT !.pc = "done", !.rules = <<>>, !.read = <<>>, !.meta = <<>>, !.i = 0,
              !.decided = <<>>, !.fault = fault, !.before = <<>>,
              !.result.status = "failed",
              !.result.errors = Append(org.result.errors, message)]

\* custom rule sets: two categories scoring the same on some tags, and one
\* category for differently tagged assets
CustomRules ==
  {<<Rule("wet", <<"water", "rain">>), Rule("lazy", <<"slow", "Motion">>)>>,
   <<Rule("lazy", <<"slow", "Motion">>), Rule("wet", <<"water", "rain">>)>>,
   <<Rule("vivid", <<"water", "bright">>)>>}

OrgOptions ==
  {[organization_scheme |-> "duration", custom_rules |-> <<>>],
   [organization_scheme |-> "custom", custom_rules |-> <<>>]}

\* every kind of options: no scheme, the built-in schemes, an unknown scheme,
\* custom without and with rules
AllOrgOptions ==
  [organization_scheme : {"", "energy", "color", "duration", "mood"},
   custom_rules : {<<>>}]
    \cup [organization_scheme : {"custom"},
          custom_rules : {<<>>} \cup {<<r>> : r \in CustomRules}]

\* organizeByCategory up to its first await (fs.pathExists)
OrganizeStart(options) ==
  /\ Calls < MaxCalls
  /\ org.pc \in {"idle", "done"}
  /\ LET fresh == [NoOrg EXCEPT
                      !.runs = org.runs + 1, !.scheme = SchemeOf(options),
                      !.before = IF org.pc = "done" /\ org.result.status = "success"
                                 THEN <<[scheme |-> org.scheme, rules |-> org.rules,
                                         clean |-> org.failed = {}]>>
                                 ELSE <<>>]
     IN org' = IF RulesOf(options) = <<>>
               THEN [fresh EXCEPT !.pc = "done", !.fault = "scheme",
                                  !.result.status = "failed",
                                  !.result.errors = <<"Invalid organization scheme">>]
               ELSE [fresh EXCEPT !.pc = "read", !.rules = RulesOf(options)]
  /\ prev' = NoPrev
  /\ UNCHANGED <<files, dirs, pview, cacheVars, call>>
  /\ UNCHANGED <<maxConcurrent, metadataFile, downloadedVideos, loadPc, tasks, queue,
                 activeCount, batches>>

\* fs.pathExists and fs.readJson of the ledger
OrganizeRead ==
  /\ org.pc = "read"
  /\ \/ /\ ~FileExists
        /\ org' = OrgFail("absent", "No downloaded videos found")
     \/ /\ FileExists
        /\ \/ org' = [org EXCEPT !.pc = IF Ledger = <<>> THEN "write" ELSE "loop",
                                 !.read = Ledger, !.meta = Ledger, !.i = 1]
           \/ org' = OrgFail("read", "readJson failed")
  /\ prev' = NoPrev
  /\ UNCHANGED <<files, dirs, pview, cacheVars, call>>
  /\ UNCHANGED <<maxConcurrent, metadataFile, downloadedVideos, loadPc, tasks, queue,
                 activeCount, batches>>

Moved_untagged(video, category) ==
  [video EXCEPT !.local_path = LocalPath(category, video.filename),
                !.category = category, !.pexels_metadata.tags = <<category>>]

\* moveVideoToCategory on a successful fs.ensureDir and fs.move
Moved(video, category) ==
  [video EXCEPT !.local_path = LocalPath(category, video.filename),
                !.category = category]

AlreadyThere_never(video, category) == FALSE

\* moveVideoToCategory's test currentPath === newPath
AlreadyThere(video, category) ==
  video.local_path = LocalPath(category, video.filename)

AddCategory_push(categories, category) == Append(categories, category)

\* if (!result.categories_created.includes(category)) push
AddCategory(categories, category) ==
  IF category \in Range(categories) THEN categories ELSE Append(categories, category)

LedgerInLoop_flushed(list) == <<list>>

\* the ledger file after one iteration: the loop body calls no fs.writeJson
LedgerInLoop(list) == metadataFile

MoveFailed_abort(o, video) ==
  [o EXCEPT !.failed = o.failed \cup {video.id}, !.result.status = "failed",
            !.result.errors = Append(o.result.errors, "move failed")]

\* moveVideoToCategory when fs.ensureDir or fs.move throws: logged, false
MoveFailed(o, video) == [o EXCEPT !.failed = o.failed \cup {video.id}]

\* one iteration of the for loop over the records
OrganizeStep ==
  /\ org.pc = "loop"
  /\ LET video == org.meta[org.i]
         category == categorizeVideo(video, org.rules[1], org.scheme)
         nextPc == IF org.i = Len(org.meta) THEN "write" ELSE "loop"
         step == [org EXCEPT !.i = org.i + 1, !.pc = nextPc,
                             !.decided = Append(org.decided, category)]
     IN IF category = <<>> \/ AlreadyThere(video, category[1])
        THEN org' = step /\ UNCHANGED <<files, dirs, metadataFile>>
        ELSE \/ /\ video.local_path \in files
                /\ org' = [step EXCEPT
                             !.meta[org.i] = Moved(video, category[1]),
                             !.result.moved_files = org.result.moved_files + 1,
                             !.result.categories_created =
                                AddCategory(org.result.categories_created, category[1])]
                /\ files' = (files \ {video.local_path})
                              \cup {LocalPath(category[1], video.filename)}
                /\ dirs' = dirs \cup {category[1]}
                /\ metadataFile' = LedgerInLoop(org'.meta)
             \/ /\ org' = MoveFailed(step, video)         \* fs.move throws, caught
                /\ files' = files
                /\ dirs' = dirs \cup {category[1]}
                /\ UNCHANGED metadataFile
  /\ prev' = NoPrev
  /\ UNCHANGED <<pview, cacheVars, call>>
  /\ UNCHANGED <<maxConcurrent, downloadedVideos, loadPc, tasks, queue, activeCount,
                 batches>>

\* fs.writeJson(metadataFile, metadata)
OrganizeWrite ==
  /\ org.pc = "write"
  /\ \/ /\ metadataFile' = <<org.meta>>
        /\ org' = [org EXCEPT !.pc = "done", !.read = <<>>, !.meta = <<>>, !.i = 0,
                              !.decided = <<>>, !.before = <<>>]
     \/ /\ org' = OrgFail("write", "writeJson failed")
        /\ UNCHANGED metadataFile
  /\ prev' = NoPrev
  /\ UNCHANGED <<files, dirs, pview, cacheVars, call>>
  /\ UNCHANGED <<maxConcurrent, downloadedVideos, loadPc, tasks, queue, activeCount,
                 batches>>

\* the records of the list whose category (same position in cats) is c
RECURSIVE InCategory(_, _, _)
InCategory(list, cats, c) ==
  IF list = <<>> THEN <<>>
  ELSE IF Head(cats) = <<c>> THEN <<Head(list)>> \o InCategory(Tail(list), Tail(cats), c)
  ELSE InCategory(Tail(list), Tail(cats), c)

\* preview[category].push(video) over the list: category -> records in list order
Grouped(metadata, cats) ==
  [c \in {cats[k][1] : k \in {j \in 1..Len(cats) : cats[j] # <<>>}} |->
     InCategory(metadata, cats, c)]

RECURSIVE CategoriesOf(_, _, _)
CategoriesOf(metadata, rules, scheme) ==
  IF metadata = <<>> THEN <<>>
  ELSE <<categorizeVideo(Head(metadata), rules, scheme)>>
         \o CategoriesOf(Tail(metadata), rules, scheme)

previewCategorization_byDuration(metadata, rules, scheme) ==
  Grouped(metadata, CategoriesOf(metadata, rules, "duration"))

\* previewCategorization after the ledger is read and the rules are found
previewCategorization(metadata, rules, scheme) ==
  Grouped(metadata, CategoriesOf(metadata, rules, scheme))

previewDirs_ensured(out) == dirs \cup DOMAIN out

\* the directories after a preview: it calls no fs.ensureDir
previewDirs(out) == dirs

\* previewCategorization: a missing ledger gives {}, an unreadable ledger or
\* an invalid scheme rejects
Preview(options) ==
  /\ Calls < MaxCalls
  /\ LET base == [NoPreview EXCEPT !.options = options, !.n = pview.n + 1]
     IN \/ /\ ~FileExists
           /\ pview' = [base EXCEPT !.status = "returned"]
           /\ dirs' = previewDirs(<<>>)
        \/ /\ FileExists
           /\ RulesOf(options) # <<>>
           /\ LET out == previewCategorization(Ledger, RulesOf(options)[1],
                                               SchemeOf(options))
              IN /\ pview' = [base EXCEPT !.status = "returned", !.read = Ledger,
                                          !.out = out]
                 /\ dirs' = previewDirs(out)
        \/ /\ FileExists
           /\ RulesOf(options) = <<>>
           /\ pview' = [base EXCEPT !.status = "raised", !.read = Ledger]
           /\ dirs' = dirs
        \/ /\ FileExists                                  \* readJson throws
           /\ pview' = [base EXCEPT !.status = "raised"]
           /\ dirs' = dirs
  /\ prev' = NoPrev
  /\ UNCHANGED <<files, cacheVars, call>>
  /\ UNCHANGED <<maxConcurrent, metadataFile, downloadedVideos, loadPc, tasks, queue,
                 activeCount, batches, org>>

(***************************************************************************)
(* CacheManager.  Times are in ms, ttls in seconds.  An entry is           *)
(* [data, timestamp, expiresAt]; an absent customDuration is <<>>, a       *)
(* supplied one <<seconds>>.                                               *)
(***************************************************************************)
CacheKeys == {"video_1", "video_2"}

CacheData == {"v1", "v2"}

\* the configured default ttl handed to the constructor
Durations == {2, 300}

Overrides == {<<>>, <<0>>, <<1>>}

\* how long the callers wait between two cache operations
Delays == {100, 1000}

CleanupInterval == 5 * 60 * 1000

NoLast == [op |-> "none", key |-> "", ret |-> <<>>, was |-> <<>>]

\* the state the constructor leaves: empty map, timer armed
CacheInit ==
  /\ cache = [k \in CacheKeys |-> <<>>]
  /\ now = 0
  /\ nextSweep = CleanupInterval
  /\ ticks = 0
  /\ asked = [k \in CacheKeys |-> <<>>]
  /\ last = NoLast

\* customDuration || this.duration
DurationOr(customDuration) ==
  IF customDuration = <<>> \/ customDuration[1] = 0 THEN duration ELSE customDuration[1]

Expired_atExpiry(entry) == now >= entry.expiresAt

\* Date.now() > entry.expiresAt
Expired(entry) == now > entry.expiresAt

Set(key, data, customDuration) ==
  /\ cache' = [cache EXCEPT ![key] =
                 <<[data |-> data, timestamp |-> now,
                    expiresAt |-> now + (DurationOr(customDuration) * 1000)]>>]
  /\ asked' = [asked EXCEPT ![key] = <<[data |-> data, at |-> now, ttl |-> customDuration]>>]
  /\ last' = [op |-> "set", key |-> key, ret |-> <<>>, was |-> cache[key]]
  /\ UNCHANGED <<duration, now, nextSweep, ticks>>

Evict_keep(key) == cache

\* this.cache.delete(key) in get and has
Evict(key) == [cache EXCEPT ![key] = <<>>]

\* get: <<>> stands for null
Get(key) ==
  /\ IF cache[key] = <<>>
     THEN /\ cache' = cache
          /\ last' = [op |-> "get", key |-> key, ret |-> <<>>, was |-> <<>>]
     ELSE IF Expired(cache[key][1])
     THEN /\ cache' = Evict(key)
          /\ last' = [op |-> "get", key |-> key, ret |-> <<>>, was |-> cache[key]]
     ELSE /\ cache' = cache
          /\ last' = [op |-> "get", key |-> key, ret |-> <<cache[key][1].data>>,
                      was |-> cache[key]]
  /\ UNCHANGED <<duration, now, nextSweep, ticks, asked>>

Has(key) ==
  /\ IF cache[key] = <<>>
     THEN /\ cache' = cache
          /\ last' = [op |-> "has", key |-> key, ret |-> FALSE, was |-> <<>>]
     ELSE IF Expired(cache[key][1])
     THEN /\ cache' = Evict(key)
          /\ last' = [op |-> "has", key |-> key, ret |-> FALSE, was |-> cache[key]]
     ELSE /\ cache' = cache
          /\ last' = [op |-> "has", key |-> key, ret |-> TRUE, was |-> cache[key]]
  /\ UNCHANGED <<duration, now, nextSweep, ticks, asked>>

\* delete: returns what Map.delete returns
Delete(key) ==
  /\ cache' = [cache EXCEPT ![key] = <<>>]
  /\ asked' = [asked EXCEPT ![key] = <<>>]
  /\ last' = [op |-> "delete", key |-> key, ret |-> (cache[key] # <<>>), was |-> cache[key]]
  /\ UNCHANGED <<duration, now, nextSweep, ticks>>

Clear ==
  /\ cache' = [k \in CacheKeys |-> <<>>]
  /\ asked' = [k \in CacheKeys |-> <<>>]
  /\ last' = [op |-> "clear", key |-> "", ret |-> <<>>, was |-> <<>>]
  /\ UNCHANGED <<duration, now, nextSweep, ticks>>

ExpiredKeys == {k \in CacheKeys : cache[k] # <<>> /\ Expired(cache[k][1])}

cleanup_idle == cache

\* the map after the loop of cleanup()
cleanup == [k \in CacheKeys |-> IF k \in ExpiredKeys THEN <<>> ELSE cache[k]]

\* the setInterval callback, fired when the interval has elapsed
Cleanup ==
  /\ now = nextSweep
  /\ cache' = cleanup
  /\ nextSweep' = nextSweep + CleanupInterval
  /\ last' = [op |-> "cleanup", key |-> "", ret |-> Cardinality(ExpiredKeys), was |-> <<>>]
  /\ UNCHANGED <<duration, now, ticks, asked>>

\* time passes, never beyond the moment the timer is due
Advance(delay) ==
  /\ ticks < MaxTicks
  /\ delay > 0
  /\ now + delay <= nextSweep
  /\ now' = now + delay
  /\ ticks' = ticks + 1
  /\ last' = NoLast
  /\ UNCHANGED <<duration, cache, nextSweep, asked>>

getStats == [size |-> Cardinality({k \in CacheKeys : cache[k] # <<>>}),
             hits |-> 0, misses |-> 0, hitRate |-> 0]

getKeys == {k \in CacheKeys : cache[k] # <<>>}

\* Math.max(0, entry.expiresAt - now)
getEntryInfo(key) ==
  IF cache[key] = <<>> THEN [exists |-> FALSE]
  ELSE [exists |-> TRUE, timestamp |-> cache[key][1].timestamp,
        expiresAt |-> cache[key][1].expiresAt,
        ttl |-> IF cache[key][1].expiresAt - now > 0
                THEN cache[key][1].expiresAt - now ELSE 0]

(***************************************************************************)
(* Functions that read no state, applied to inputs.                        *)
(***************************************************************************)
NoCall == [fn |-> "none"]

Qualities == {"hd", "sd", "mobile", "uhd"}

\* rendition lists: file k has width k
FileLists ==
  UNION {{[k \in 1..n |-> VideoFile(q[k], k, 30)] : q \in [1..n -> Qualities]} :
           n \in 0..MaxFiles}

\* downloadVideo, from the selection of the rendition to the throw
SelectRendition(videoFiles, quality) ==
  /\ call = NoCall
  /\ call' = [fn |-> "selectBestQuality", videoFiles |-> videoFiles, quality |-> quality,
              out |-> LET videoFile == selectBestQuality(videoFiles, QualityOrHd(quality))
                      IN IF videoFile = <<>>
                         THEN [file |-> <<>>, error |-> "No suitable video file found"]
                         ELSE [file |-> videoFile, error |-> ""]]

Tags == {"Water", "slow motion", "bright", "sunset", "night"}

TagLists == UNION {[1..n -> Tags] : n \in 0..MaxTags}

RuleSets ==
  [scheme : {"emotion", "energy", "color", "duration"}, custom_rules : {<<>>}]
    \cup [scheme : {"custom"}, custom_rules : CustomRules]

\* 15 s, 15.01 s, 45 s, 45.01 s and the durations around them
DurationInputs ==
  {0, Seconds(15) - 1, Seconds(15), Seconds(15) + 1, Seconds(45) - 1, Seconds(45),
   Seconds(45) + 1, Seconds(600)}

Categorize(tags, o, d) ==
  /\ call = NoCall
  /\ call' = [fn |-> "categorizeVideo", tags |-> tags, scheme |-> o.scheme,
              duration |-> d,
              rules |-> RulesOf([organization_scheme |-> o.scheme,
                                 custom_rules |-> <<o.custom_rules>>])[1],
              out |-> categorizeVideo(
                        [pexels_metadata |-> [duration |-> d, tags |-> tags]],
                        RulesOf([organization_scheme |-> o.scheme,
                                 custom_rules |-> <<o.custom_rules>>])[1],
                        o.scheme)]

\* lists of ids, at most n long
RECURSIVE IdLists(_)
IdLists(n) ==
  IF n = 0 THEN {<<>>}
  ELSE IdLists(n - 1)
         \cup {Append(l, i) : l \in {m \in IdLists(n - 1) : Len(m) = n - 1},
                              i \in Ids}

\* filter blocks: each criterion absent (0, {}) or present
FilterBlocks ==
  [min_width : {0, 2}, min_height : {0, 3}, preferred_fps : {0, 25, 60},
   exclude_ids : {{}, {2}}]

\* batchDownload's call of filterVideos on a list of search results
Filter(videos, criteria, known) ==
  /\ call = NoCall
  /\ call' = [fn |-> "filterVideos", videos |-> videos, criteria |-> criteria,
              known |-> known,
              out |-> filterVideos(videos, [filter_criteria |-> criteria], known)]

(***************************************************************************)
(* DownloadManager.listDownloaded.  A record of the listed ledger carries  *)
(* its download_date (a time in ms); filenames compare as localeCompare    *)
(* compares the generated names of two ids.                                *)
(***************************************************************************)
ListRecord(i) ==
  [id |-> i, filename |-> generateFilename(i),
   local_path |-> LocalPath(IF i % 2 = 1 THEN "short" ELSE "", generateFilename(i)),
   file_size |-> (MaxId + 1 - i) * 100000, download_date |-> (i * 2) % (MaxId + 2),
   category |-> IF i % 2 = 1 THEN "short" ELSE "",
   pexels_metadata |-> [width |-> Video(i).width, height |-> Video(i).height,
                        duration |-> Video(i).duration, tags |-> Video(i).tags]]

\* the ledger files listed: none, or distinct records in any order
ListFiles ==
  {<<>>} \cup {<< [k \in 1..Len(l) |-> ListRecord(l[k])] >> :
                 l \in {m \in IdLists(MaxRecords) :
                          \A a, b \in 1..Len(m) : a # b => m[a] # m[b]}}

\* limit is <<>> when absent; category and sort_by are "" when absent
ListOptions ==
  [category : {"", "short"}, sort_by : {"", "date", "size", "duration", "name"},
   limit : {<<>>, <<0>>, <<1>>}]

\* metadata.filter(video => video.category === options.category)
RECURSIVE OfCategory(_, _)
OfCategory(list, category) ==
  IF list = <<>> THEN <<>>
  ELSE IF Head(list).category = category
  THEN <<Head(list)>> \o OfCategory(Tail(list), category)
  ELSE OfCategory(Tail(list), category)

\* the comparator of the sort as a key: a goes before b when its key is larger
SortKey(video, sortBy) ==
  IF sortBy = "date" THEN video.download_date
  ELSE IF sortBy = "size" THEN video.file_size
  ELSE IF sortBy = "duration" THEN video.pexels_metadata.duration
  ELSE IF sortBy = "name" THEN 0 - video.filename
  ELSE 0

\* Array.prototype.sort is stable: an element goes behind those it does not beat
RECURSIVE InsertSorted(_, _, _)
InsertSorted(video, sorted, sortBy) ==
  IF sorted = <<>> THEN <<video>>
  ELSE IF SortKey(Head(sorted), sortBy) >= SortKey(video, sortBy)
  THEN <<Head(sorted)>> \o InsertSorted(video, Tail(sorted), sortBy)
  ELSE <<video>> \o sorted

RECURSIVE SortedBy(_, _)
SortedBy(list, sortBy) ==
  IF list = <<>> THEN <<>>
  ELSE InsertSorted(list[Len(list)], SortedBy(SubSeq(list, 1, Len(list) - 1), sortBy),
                    sortBy)

DefaultLimit == 50

\* Array.prototype.slice(0, end)
SliceTo(list, end) ==
  IF end >= 0 THEN SubSeq(list, 1, Min(end, Len(list)))
  ELSE SubSeq(list, 1, IF Len(list) + end > 0 THEN Len(list) + end ELSE 0)

\* listDownloaded when fs.readJson returns; file is <<>> when absent
listDownloaded(file, options) ==
  IF file = <<>> THEN <<>>
  ELSE LET metadata == IF options.category # "" THEN OfCategory(file[1], options.category)
                       ELSE file[1]
           sortBy == IF options.sort_by = "" THEN "date" ELSE options.sort_by
           limit == IF options.limit = <<>> \/ options.limit[1] = 0 THEN DefaultLimit
                    ELSE options.limit[1]
       IN SliceTo(SortedBy(metadata, sortBy), limit)

\* one call of listDownloaded; a throw of readJson is caught and gives []
List(file, options) ==
  /\ call = NoCall
  /\ \/ call' = [fn |-> "listDownloaded", file |-> file, options |-> options,
                 fault |-> FALSE, out |-> listDownloaded(file, options)]
     \/ /\ file # <<>>
        /\ call' = [fn |-> "listDownloaded", file |-> file, options |-> options,
                    fault |-> TRUE, out |-> <<>>]

(***************************************************************************)
(* Inputs of the calls.                                                    *)
(***************************************************************************)
NoCriteria == [min_width |-> 0, min_height |-> 0, preferred_fps |-> 0, exclude_ids |-> {}]

CriteriaSet == {<<>>, <<NoCriteria>>}

\* candidate lists: the first n assets of a search result page
CandidateLists == {[k \in 1..n |-> k] : n \in 1..Min(MaxBatch, MaxId)}

BatchOptions ==
  [max_videos : {0, 2}, quality : {""}, category : {""}, filter_criteria : CriteriaSet]

\* the server as index.ts constructs it
Init ==
  /\ DownloadInit
  /\ CacheInit
  /\ duration = 3600
  /\ call = NoCall

Next ==
  \/ LoadMetadata
  \/ \E vid \in Ids, o \in FetchOptions : Fetch(vid, o.quality, o.category)
  \/ \E videos \in CandidateLists, options \in BatchOptions : BatchDownload(videos, options)
  \/ \E t \in 1..Len(tasks) : Release(t)
  \/ \E t \in 1..Len(tasks) : EnsureDir(t)
  \/ \E t \in 1..Len(tasks) : Transfer(t)
  \/ \E t \in 1..Len(tasks) : SaveRead(t)
  \/ \E t \in 1..Len(tasks) : SaveWrite(t)
  \/ \E t \in 1..Len(tasks) : ReadExisting(t)
  \/ \E options \in OrgOptions : OrganizeStart(options)
  \/ OrganizeRead
  \/ OrganizeStep
  \/ OrganizeWrite

Spec == Init /\ [][Next]_vars

downloadVars == <<maxConcurrent, metadataFile, downloadedVideos, loadPc, tasks, queue,
                  activeCount, batches, org, prev, files, dirs, pview>>

\* a server on which only the cache is used
CacheOnlyInit ==
  /\ DownloadInit
  /\ maxConcurrent = 1
  /\ metadataFile = <<>>
  /\ CacheInit
  /\ duration \in Durations
  /\ call = NoCall

CacheNext ==
  \/ \E key \in CacheKeys, data \in CacheData, customDuration \in Overrides :
       Set(key, data, customDuration) /\ UNCHANGED <<downloadVars, call>>
  \/ \E key \in CacheKeys : Get(key) /\ UNCHANGED <<downloadVars, call>>
  \/ \E key \in CacheKeys : Has(key) /\ UNCHANGED <<downloadVars, call>>
  \/ \E key \in CacheKeys : Delete(key) /\ UNCHANGED <<downloadVars, call>>
  \/ Clear /\ UNCHANGED <<downloadVars, call>>
  \/ Cleanup /\ UNCHANGED <<downloadVars, call>>
  \/ \E delay \in Delays \cup {nextSweep - now} :
       Advance(delay) /\ UNCHANGED <<downloadVars, call>>

CacheSpec == CacheOnlyInit /\ [][CacheNext]_vars

PureInit ==
  /\ DownloadInit
  /\ maxConcurrent = 1
  /\ metadataFile = <<>>
  /\ CacheInit
  /\ duration = 3600
  /\ call = NoCall

PureNext ==
  \/ \E videoFiles \in FileLists, quality \in {"", "hd", "sd", "mobile"} :
       SelectRendition(videoFiles, quality) /\ UNCHANGED <<downloadVars, cacheVars>>
  \/ \E tags \in TagLists, o \in RuleSets, d \in DurationInputs :
       Categorize(tags, o, d) /\ UNCHANGED <<downloadVars, cacheVars>>
  \/ \E videos \in IdLists(MaxBatch), criteria \in {<<>>} \cup {<<c>> : c \in FilterBlocks},
        known \in {{}, {1}} :
       Filter(videos, criteria, known) /\ UNCHANGED <<downloadVars, cacheVars>>
  \/ \E file \in ListFiles, options \in ListOptions :
       List(file, options) /\ UNCHANGED <<downloadVars, cacheVars>>

PureSpec == PureInit /\ [][PureNext]_vars

\* the ledgers a categorization run may find: none, an empty list, earlier
\* downloads in the download root
OrgLedgers ==
  {<<>>} \cup {<< [k \in 1..Len(l) |-> InitRecord(l[k])] >> :
                 l \in {m \in IdLists(MaxRecords) :
                          \A a, b \in 1..Len(m) : a # b => m[a] # m[b]}}

\* a server on which only the OrganizationManager is used
OrgInit ==
  /\ maxConcurrent = 1
  /\ metadataFile \in OrgLedgers
  /\ downloadedVideos = {}
  /\ loadPc = "pending"
  /\ tasks = <<>>
  /\ queue = <<>>
  /\ activeCount = 0
  /\ batches = <<>>
  /\ org = NoOrg
  /\ prev = NoPrev
  /\ files = {Ledger[k].local_path : k \in 1..Len(Ledger)}
  /\ dirs = {}
  /\ pview = NoPreview
  /\ CacheInit
  /\ duration = 3600
  /\ call = NoCall

OrgNext ==
  \/ \E options \in AllOrgOptions : OrganizeStart(options)
  \/ OrganizeRead
  \/ OrganizeStep
  \/ OrganizeWrite
  \/ \E options \in AllOrgOptions : Preview(options)

OrgSpec == OrgInit /\ [][OrgNext]_vars

(***************************************************************************)
(* Properties.                                                             *)
(***************************************************************************)
TaskIds == 1..Len(tasks)

BatchIds == 1..Len(batches)

Holders == {t \in TaskIds : tasks[t].permit}

\* C1: at no point do more than maxConcurrent fetch tasks hold a permit, and
\* a queued task leaves the queue only in a step in which a task that held a
\* permit and had completed or failed gives its permit up.
C1_PermitBound ==
  /\ [](Cardinality(Holders) <= maxConcurrent)
  /\ [][\A t \in TaskIds :
          (tasks[t].pc = "queued" /\ tasks'[t].pc # "queued")
            => \E u \in Holders : Finished(tasks[u]) /\ ~tasks'[u].permit]_vars

\* a batch larger than the gate: the first item is done and has released,
\* the item that had to queue behind it now holds the permit
C1_Witness ==
  \E b \in BatchIds :
    /\ Len(batches[b].items) > maxConcurrent
    /\ Cardinality(Holders) = maxConcurrent
    /\ \E u \in Range(batches[b].items) : Finished(tasks[u]) /\ ~tasks[u].permit
    /\ \E t \in Range(batches[b].items) :
         tasks[t].permit /\ tasks[t].pc \in {"ensureDir", "transfer"}

OnlyBatch(b) ==
  /\ org.runs = 0
  /\ Len(batches) = 1
  /\ \A t \in TaskIds : tasks[t].batch = b

Written(t) ==
  /\ tasks[t].pc = "settled"
  /\ tasks[t].res.status = "success"
  /\ tasks[t].net
  /\ ~tasks[t].fault

\* C2: after a batchFetch in which every item returned success, the Ledger
\* has a record for every id whose record that batch wrote: no update of one
\* completing fetch is lost to another.
C2_NoLostUpdate ==
  \A b \in BatchIds :
    (/\ OnlyBatch(b)
     /\ BatchStatus(b) = "returned"
     /\ \A t \in Range(batches[b].items) : tasks[t].res.status = "success")
    => \A t \in Range(batches[b].items) : Written(t) => HasRecord(tasks[t].vid)

\* C3: the Ledger never holds two records of the same asset id.
C3_OneRecordPerId ==
  \A vid \in Ids : Cardinality(RecordsOf(Ledger, vid)) <= 1

\* an asset that had a record was transferred again and recorded again
C3_Witness ==
  \E t \in TaskIds :
    /\ tasks[t].hadRec
    /\ Written(t)
    /\ Len(Ledger) >= 2
    /\ Ledger[Len(Ledger)].id = tasks[t].vid

Reused(res, first) ==
  /\ res.status = "success"
  /\ res.download_time = 0
  /\ res.local_path = first.local_path
  /\ res.file_size = first.file_size

SecondReuses ==
  /\ ~tasks[prev.second].net
  /\ tasks[prev.second].pc # "rejected"
  /\ tasks[prev.second].pc = "settled" => Reused(tasks[prev.second].res, prev.first)

C5_LedgerIsTruth ==
  \A t \in TaskIds :
    tasks[t].pc # "queued" =>
      /\ tasks[t].skip <=> tasks[t].hadRec
      /\ tasks[t].skip =>
           /\ ~tasks[t].net
           /\ tasks[t].pc # "rejected"
           /\ tasks[t].pc = "settled" =>
                (tasks[t].res.status = "success" /\ tasks[t].res.download_time = 0)

RecordedAtCall(b) ==
  {vid \in Range(batches[b].videos) : RecordsOf(batches[b].ledger0, vid) # {}}

\* C6: a batch never starts a transfer for a candidate that had a Ledger
\* record when the batch was called, and once the batch has returned that id
\* has exactly one record.
C6_NoRefetch ==
  \A b \in BatchIds : \A vid \in RecordedAtCall(b) :
    /\ \A t \in Range(batches[b].items) : tasks[t].vid = vid => ~tasks[t].net
    /\ BatchStatus(b) = "returned" => Cardinality(RecordsOf(Ledger, vid)) = 1

\* C7: whatever the options, a candidate that was already fetched when the
\* batch was called (its record in the Ledger and its id in the set loaded
\* from it) gets none of the max-count slots and no result entry.
C7_DropsRecorded ==
  \A b \in BatchIds : \A t \in Range(batches[b].items) :
    tasks[t].vid \notin (RecordedAtCall(b) \cap batches[b].known0)

\* C8: 3 candidates, max_videos = 2, exactly one of them recorded (and
\* known to the orchestrator), every item succeeding with no ledger read or
\* write failing: 1 transfer, 2 entries (1 reused, 1 new), 1 record more.
C8_ThreeCandidates ==
  \A b \in BatchIds :
    LET items == Range(batches[b].items)
        res == BatchResults(b)
    IN (/\ Len(batches[b].videos) = 3
        /\ batches[b].options.max_videos = 2
        /\ Cardinality(RecordedAtCall(b)) = 1
        /\ RecordedAtCall(b) \subseteq batches[b].known0
        /\ OnlyBatch(b)
        /\ BatchStatus(b) = "returned"
        /\ \A t \in items : tasks[t].res.status = "success" /\ ~tasks[t].fault)
       => /\ Cardinality({t \in items : tasks[t].net}) = 1
          /\ Len(res) = 2
          /\ Cardinality({k \in 1..Len(res) : res[k].download_time = 0}) = 1
          /\ Len(Ledger) = Len(batches[b].ledger0) + 1

Truncated(b) ==
  videosToDownload(batches[b].videos, batches[b].options, batches[b].known0)

\* C9: a failed item never aborts the batch: the batch is rejected only if
\* an item's promise is rejected, it returns as soon as every item has a
\* result, and what it returns has one entry, success or failed, per item of
\* the truncated candidate list, in that list's order.
C9_FailureIsolated ==
  \A b \in BatchIds :
    /\ BatchStatus(b) = "rejected" =>
         \E t \in Range(batches[b].items) : tasks[t].pc = "rejected"
    /\ (\A t \in Range(batches[b].items) : tasks[t].res.status # "none")
         => BatchStatus(b) = "returned"
    /\ BatchStatus(b) = "returned" =>
         /\ Len(BatchResults(b)) = Len(Truncated(b))
         /\ \A k \in 1..Len(Truncated(b)) :
              /\ BatchResults(b)[k].video_id = Truncated(b)[k]
              /\ BatchResults(b)[k].status \in {"success", "failed"}

\* a returned batch with a failed and a successful item
C9_Witness ==
  \E b \in BatchIds :
    /\ BatchStatus(b) = "returned"
    /\ \E k \in 1..Len(BatchResults(b)) : BatchResults(b)[k].status = "failed"
    /\ \E k \in 1..Len(BatchResults(b)) : BatchResults(b)[k].status = "success"

\* C10: fetch never raises: no downloadVideo promise is rejected, and a
\* failed result has empty path, size 0, zeroed metadata and an error string.
C10_NeverRaises ==
  \A t \in TaskIds :
    /\ tasks[t].pc # "rejected"
    /\ (tasks[t].pc = "settled" /\ tasks[t].res.status = "failed") =>
         /\ tasks[t].res.local_path = <<>>
         /\ tasks[t].res.file_size = 0
         /\ tasks[t].res.metadata = NoMeta
         /\ tasks[t].res.error # ""

(***************************************************************************)
(* Every downloadVideo that is suspended at an await is resumed when the   *)
(* awaited I/O completes, and p-limit runs next() when a task's promise    *)
(* settles.  Nothing resumes a task whose writer never emits an event.     *)
(***************************************************************************)
TaskStep(t) ==
  /\ t \in TaskIds
  /\ \/ Release(t) \/ EnsureDir(t) \/ Transfer(t)
     \/ SaveRead(t) \/ SaveWrite(t) \/ ReadExisting(t)

LiveSpec == Spec /\ \A t \in 1..MaxTasks : WF_vars(TaskStep(t))

\* C11: every fetch task that holds a permit eventually has a success or
\* failed result and has released its permit, whatever the outcome of its
\* transfer.
C11_PermitReleased ==
  \A t \in 1..MaxTasks :
    [] ((t \in TaskIds /\ tasks[t].permit)
          => <> (/\ t \in TaskIds
                 /\ ~tasks[t].permit
                 /\ tasks[t].pc = "settled"
                 /\ tasks[t].res.status \in {"success", "failed"}))

InFlight == {t \in TaskIds : tasks[t].pc = "transfer"}

\* C12: counting the transfers of every batch and of every direct fetch,
\* never more than maxConcurrent transfers are in flight at the same time.
C12_GlobalBound == Cardinality(InFlight) <= maxConcurrent

\* C13: whatever the order in which the items of a batch got their results,
\* entry k of what the batch returns is the result of item k of the
\* truncated candidate list.
C13_OrderPreserved ==
  \A b \in BatchIds :
    BatchStatus(b) = "returned" =>
      /\ Len(BatchResults(b)) = Len(Truncated(b))
      /\ \A k \in 1..Len(Truncated(b)) :
           /\ BatchResults(b)[k].video_id = Truncated(b)[k]
           /\ BatchResults(b)[k] = tasks[batches[b].items[k]].res

\* a returned batch whose second item got its result before the first
C13_Witness ==
  \E b \in BatchIds :
    /\ BatchStatus(b) = "returned"
    /\ Len(batches[b].items) >= 2
    /\ tasks[batches[b].items[1]].ord > tasks[batches[b].items[2]].ord
    /\ tasks[batches[b].items[1]].vid # tasks[batches[b].items[2]].vid

(***************************************************************************)
(* Rendition selection and categorization (PureSpec).                      *)
(***************************************************************************)
QualitiesOf(videoFiles) == {videoFiles[k].quality : k \in 1..Len(videoFiles)}

\* C14: for a requested quality hd, sd or mobile the fetch uses a rendition
\* of the quality that comes earliest in the preference order of the request
\* among the qualities the asset has; when the asset has none of the three,
\* its first rendition; when it has no rendition at all, the fetch fails with
\* the no-suitable-rendition error.
C14_RenditionSelection ==
  (call.fn = "selectBestQuality" /\ call.quality # "") =>
    LET order == IF call.quality = "hd" THEN <<"hd", "sd", "mobile">>
                 ELSE IF call.quality = "sd" THEN <<"sd", "hd", "mobile">>
                 ELSE <<"mobile", "sd", "hd">>
        has == {k \in 1..3 : order[k] \in QualitiesOf(call.videoFiles)}
    IN IF call.videoFiles = <<>>
       THEN call.out.file = <<>> /\ call.out.error = "No suitable video file found"
       ELSE /\ call.out.error = ""
            /\ call.out.file # <<>>
            /\ IF has = {} THEN call.out.file[1] = call.videoFiles[1]
               ELSE /\ call.out.file[1] \in Range(call.videoFiles)
                    /\ \E k \in has : /\ call.out.file[1].quality = order[k]
                                      /\ \A m \in has : k <= m

\* mobile requested, only hd and sd available: sd is used
C14_Witness ==
  /\ call.fn = "selectBestQuality"
  /\ call.quality = "mobile"
  /\ QualitiesOf(call.videoFiles) = {"hd", "sd"}
  /\ call.out.file # <<>>
  /\ call.out.file[1].quality = "sd"

\* the count of keywords that occur in the tag string exactly as written
LiteralScore(allTags, keywords) ==
  Cardinality({k \in 1..Len(keywords) : includes(allTags, keywords[k])})

\* the outcome is the first category with the highest count in sc, null
\* when every count is 0
FirstHighest(sc) ==
  IF \A k \in 1..Len(call.rules) : sc[k] = 0 THEN call.out = <<>>
  ELSE \E k \in 1..Len(call.rules) :
         /\ \A m \in 1..Len(call.rules) : sc[m] <= sc[k]
         /\ \A m \in 1..(k - 1) : sc[m] < sc[k]
         /\ call.out = <<call.rules[k].category>>

\* the lower-cased, space-joined tag string of the call
AllTags == toLowerCase(join(call.tags, " "))

\* C20 as stated: the chosen category is the first of those with the highest
\* non-zero count of keywords that occur as substrings of the lower-cased,
\* space-joined tag string.
C20_FirstHighestLiteral ==
  (call.fn = "categorizeVideo" /\ call.scheme # "duration") =>
    FirstHighest([k \in 1..Len(call.rules) |->
                    LiteralScore(AllTags, call.rules[k].keywords)])

\* C20 as amended: the same, a keyword being compared in lower case.
C20_FirstHighest ==
  (call.fn = "categorizeVideo" /\ call.scheme # "duration") =>
    FirstHighest([k \in 1..Len(call.rules) |->
                    calculateCategoryScore(AllTags, call.rules[k].keywords)])

\* two categories tie for the highest non-zero count and the first is chosen
C20_Witness ==
  /\ call.fn = "categorizeVideo"
  /\ LET allTags == toLowerCase(join(call.tags, " "))
         sc == [k \in 1..Len(call.rules) |->
                  calculateCategoryScore(allTags, call.rules[k].keywords)]
     IN \E k \in 1..Len(call.rules), m \in 1..Len(call.rules) :
          /\ k < m
          /\ sc[k] = sc[m]
          /\ sc[k] > 0
          /\ \A j \in 1..Len(call.rules) : sc[j] <= sc[k]
          /\ call.out = <<call.rules[k].category>>

(***************************************************************************)
(* Cache (CacheSpec).                                                      *)
(***************************************************************************)
Lookup == last.op \in {"get", "has"}

Absent == IF last.op = "get" THEN last.ret = <<>> ELSE last.ret = FALSE

\* C15: a get or has of a key whose entry's expiry has passed returns
\* absence and removes that entry; the entries of the other keys stay as
\* they are.
C15_ExpiredLookupEvicts ==
  /\ [] ((Lookup /\ last.was # <<>> /\ now > last.was[1].expiresAt)
           => (Absent /\ cache[last.key] = <<>>))
  /\ [][(last'.op \in {"get", "has"})
          => \A k \in CacheKeys \ {last'.key} : cache'[k] = cache[k]]_vars

\* set with ttl 1 s, get 1.1 s later, another key in the cache
C15_Witness ==
  /\ last.op = "get"
  /\ last.was # <<>>
  /\ last.was[1].expiresAt = last.was[1].timestamp + 1000
  /\ now = last.was[1].timestamp + 1100
  /\ \E k \in CacheKeys \ {last.key} : cache[k] # <<>>

\* the ttl a set asked for: the override when one was supplied
RequestedTtl(a) == IF a.ttl = <<>> THEN duration ELSE a.ttl[1]

\* C16: a lookup of a key at a time not later than the time of its last set
\* plus that set's ttl, with no delete or clear of the key in between,
\* returns the value set (true for has).
C16_NoPrematureEviction ==
  (/\ Lookup
   /\ asked[last.key] # <<>>
   /\ now <= asked[last.key][1].at + (RequestedTtl(asked[last.key][1]) * 1000))
  => IF last.op = "get" THEN last.ret = <<asked[last.key][1].data>> ELSE last.ret = TRUE

\* a get exactly at the expiry time, after a lookup of the key and a sweep
C16_Witness ==
  /\ last.op = "get"
  /\ asked[last.key] # <<>>
  /\ RequestedTtl(asked[last.key][1]) > 0
  /\ now = asked[last.key][1].at + (RequestedTtl(asked[last.key][1]) * 1000)
  /\ nextSweep > CleanupInterval
  /\ asked[last.key][1].at < CleanupInterval
  /\ last.ret = <<asked[last.key][1].data>>

Unexpired == {k \in CacheKeys : cache[k] # <<>> /\ ~Expired(cache[k][1])}

\* C17: an entry whose expiry has passed is absent for every operation: the
\* key listing, the size and the entry info show unexpired entries only, a
\* lookup of it returns absence and a delete of it reports no removal.
C17_ExpiredIsAbsent ==
  /\ getKeys = Unexpired
  /\ getStats.size = Cardinality(Unexpired)
  /\ \A k \in CacheKeys : getEntryInfo(k).exists <=> k \in Unexpired
  /\ (Lookup /\ last.was # <<>> /\ now > last.was[1].expiresAt) => Absent
  /\ (last.op = "delete" /\ last.was # <<>> /\ now > last.was[1].expiresAt)
       => last.ret = FALSE

\* C18: right after set(k, v, ttl) the entry of k is v with expiry now + ttl
\* when a ttl was supplied, 0 included, and now + the default otherwise.
C18_SetReplaces ==
  last.op = "set" =>
    cache[last.key] =
      <<[data |-> asked[last.key][1].data, timestamp |-> now,
         expiresAt |-> now + (RequestedTtl(asked[last.key][1]) * 1000)]>>

\* C19: no entry stays in the map longer than one sweep interval after its
\* expiry, and a sweep removes the entries whose expiry has passed and no
\* other.
C19_SweepRemovesExpired ==
  /\ [] (\A k \in CacheKeys :
           cache[k] # <<>> => now <= cache[k][1].expiresAt + CleanupInterval)
  /\ [][(last'.op = "cleanup")
          => \A k \in CacheKeys :
               cache'[k] = IF cache[k] # <<>> /\ now > cache[k][1].expiresAt
                           THEN <<>> ELSE cache[k]]_vars

\* a sweep one interval after an entry's expiry removed it and kept another
C19_Witness ==
  /\ last.op = "cleanup"
  /\ last.ret = 1
  /\ \E k \in CacheKeys :
       /\ cache[k] = <<>>
       /\ asked[k] # <<>>
       /\ asked[k][1].ttl = <<>>
       /\ now = asked[k][1].at + (duration * 1000) + CleanupInterval
  /\ \E k \in CacheKeys : cache[k] # <<>>

(***************************************************************************)
(* The Categorization Engine: organizeByCategory and previewCategorization. *)
(***************************************************************************)

\* C21: under the duration scheme categorizeVideo always returns exactly one
\* category, fixed by the duration whatever the tags are: at most 15 s is
\* short, above 15 s and at most 45 s is medium, above 45 s is long.
C21_DurationBuckets ==
  (call.fn = "categorizeVideo" /\ call.scheme = "duration") =>
    /\ Len(call.out) = 1
    /\ call.out[1] = "short" <=> call.duration <= 1500
    /\ call.out[1] = "medium" <=> (1500 < call.duration /\ call.duration <= 4500)
    /\ call.out[1] = "long" <=> 4500 < call.duration

\* 45.01 s with tags goes to long
C21_Witness ==
  /\ call.fn = "categorizeVideo"
  /\ call.scheme = "duration"
  /\ call.tags # <<>>
  /\ call.duration = 4501
  /\ call.out = <<"long">>

\* the entry the loop's catch adds for a record: `Video ${video.id}: ...`
NamesVideo(entry, id) == includes(entry, "Video " \o ToString(id) \o ":")

\* C22: when relocating a record's file fails, the result's error list gets
\* an entry naming that asset id.
C22_MoveFailureReported ==
  \A id \in org.failed :
    \E k \in 1..Len(org.result.errors) : NamesVideo(org.result.errors[k], id)

\* C23: a finished categorize run has status failed exactly when the scheme
\* was invalid or the ledger was absent, unreadable or unwritable; every
\* other run, failed moves included, has status success.
C23_FailedOnlyOnSchemeOrLedger ==
  org.pc = "done" =>
    /\ org.result.status \in {"success", "failed"}
    /\ org.result.status = "failed" <=> org.fault \in {"scheme", "absent", "read", "write"}

\* a run in which a move failed has finished with status success
C23_Witness ==
  /\ org.pc = "done"
  /\ org.failed # {}
  /\ org.fault = ""
  /\ org.result.status = "success"
  /\ org.result.moved_files >= 1

\* C24: a categorize run needs a ledger with at least one record: with the
\* ledger absent it fails and moves nothing, and a run that read zero
\* records never gets to writing the ledger.
C24_RequiresNonEmptyLedger ==
  /\ (org.pc = "done" /\ org.fault = "absent") =>
       (org.result.status = "failed" /\ org.result.moved_files = 0)
  /\ org.pc = "write" => org.read # <<>>

\* a record without its place on disk
Placeless(record) == [record EXCEPT !.local_path = "", !.category = ""]

\* C25: the ledger a categorize run writes has the records of the ledger it
\* read, in the same order, equal in every field but path and category.
C25_OnlyPathAndCategory ==
  [][(org.pc = "write" /\ org'.pc = "done" /\ org'.fault = "") =>
       /\ Len(Ledger') = Len(org.read)
       /\ \A k \in 1..Len(org.read) : Placeless(Ledger'[k]) = Placeless(org.read[k])]_vars

\* a second run in a row has moved a file and written a two-record ledger
C25_Witness ==
  /\ org.pc = "done"
  /\ org.runs = 2
  /\ org.fault = ""
  /\ org.result.moved_files >= 1
  /\ Len(Ledger) = 2
  /\ \E k \in 1..Len(Ledger) : Ledger[k].category # ""

\* C26: a preview leaves the ledger, the location of every file and the set
\* of directories as they were.
C26_PreviewMutatesNothing ==
  [][pview'.n # pview.n =>
       (metadataFile' = metadataFile /\ files' = files /\ dirs' = dirs)]_vars

\* a preview returned a non-empty mapping and no directory exists
C26_Witness ==
  /\ pview.status = "returned"
  /\ DOMAIN pview.out # {}
  /\ dirs = {}

\* record r is listed under category c of a preview's mapping
Listed(out, r, c) == c \in DOMAIN out /\ r \in Range(out[c])

\* C27: when a preview and a categorize run had the same ledger and the same
\* valid scheme, a record is listed under c by the preview exactly when the
\* run decided c for it; a record the run left uncategorized is listed
\* nowhere.
C27_PreviewAgrees ==
  (/\ org.pc \in {"loop", "write"}
   /\ pview.status = "returned"
   /\ pview.read = org.read
   /\ SchemeOf(pview.options) = org.scheme
   /\ RulesOf(pview.options) = org.rules) =>
    \A k \in 1..Len(org.decided) :
      \A c \in DOMAIN pview.out \cup Range(org.decided[k]) :
        Listed(pview.out, org.read[k], c) <=> org.decided[k] = <<c>>

\* same ledger, same tag scheme: one record categorized, one left out
C27_Witness ==
  /\ org.pc = "write"
  /\ pview.status = "returned"
  /\ pview.read = org.read
  /\ SchemeOf(pview.options) = org.scheme
  /\ RulesOf(pview.options) = org.rules
  /\ org.scheme # "duration"
  /\ Len(org.decided) = 2
  /\ \E k \in 1..2 : org.decided[k] = <<>>
  /\ \E k \in 1..2 : org.decided[k] # <<>> /\ Listed(pview.out, org.read[k], org.decided[k][1])

(***************************************************************************)
(* Fetches against the ledger, continued.                                   *)
(***************************************************************************)

\* C28: a fetch that transferred the asset returns success only with its
\* record in the ledger: at the step at which such a fetch returns success
\* the ledger has a record of its id.
C28_SuccessImpliesRecorded ==
  [][\A t \in 1..Len(tasks) :
       (/\ tasks[t].pc # "settled"
        /\ tasks'[t].pc = "settled"
        /\ tasks'[t].res.status = "success"
        /\ tasks'[t].net)
       => HasRecord(tasks[t].vid)']_vars

\* C29: with a single fetch and a categorize run on the same download root,
\* the record the fetch wrote is in the ledger once both have finished.
C29_NoRecordLostToCategorize ==
  (/\ Len(tasks) = 1
   /\ Written(1)
   /\ org.pc = "done"
   /\ org.runs >= 1)
  => HasRecord(tasks[1].vid)

\* C30: of the fetches of one asset id that are in flight together, at most
\* one is transferring the file.
C30_OneTransferPerId ==
  \A vid \in Ids :
    Cardinality({t \in 1..Len(tasks) :
                   tasks[t].vid = vid /\ tasks[t].pc = "transfer"}) <= 1

(***************************************************************************)
(* The Categorization Engine, continued.                                    *)
(***************************************************************************)

\* this run follows a run that returned success under the same scheme and
\* rules, and has processed every record
SecondPass ==
  /\ org.pc = "write"
  /\ org.before # <<>>
  /\ org.before[1].scheme = org.scheme
  /\ org.before[1].rules = org.rules

C32_WritesOnce ==
  [][/\ org.pc # "write" => metadataFile' = metadataFile
     /\ org.pc = "write" => org.i = Len(org.meta) + 1
     /\ (org.pc = "write" /\ org'.pc = "done" /\ org'.fault = "") =>
          metadataFile' = <<org.meta>>]_vars

\* a run relocated two files and then wrote the ledger
C32_Witness ==
  /\ org.pc = "done"
  /\ org.fault = ""
  /\ org.result.moved_files = 2
  /\ Len(Ledger) = 2
  /\ \A k \in 1..2 : Ledger[k].category # ""

\* every category of the rule set scores zero on the record's tags
ZeroScore(video, rules) ==
  \A k \in 1..Len(rules) :
    calculateCategoryScore(toLowerCase(join(video.pexels_metadata.tags, " ")),
                           rules[k].keywords) = 0

\* C33: the iteration over a record on which every category of a tag-based
\* rule set scores zero moves no file, leaves every record as it was, counts
\* nothing as moved and adds no error.
C33_ZeroScoreSkipped ==
  [][(/\ org.pc = "loop"
      /\ org'.i = org.i + 1
      /\ org.scheme # "duration"
      /\ ZeroScore(org.meta[org.i], org.rules[1]))
     => /\ files' = files
        /\ org'.meta = org.meta
        /\ org'.result = org.result
        /\ org'.failed = org.failed]_vars

\* a tag-based run skipped a record without matching tags and moved another
C33_Witness ==
  /\ org.pc = "write"
  /\ org.scheme # "duration"
  /\ org.result.moved_files = 1
  /\ org.result.errors = <<>>
  /\ \E k \in 1..Len(org.read) :
       /\ ZeroScore(org.read[k], org.rules[1])
       /\ org.decided[k] = <<>>
       /\ org.meta[k] = org.read[k]
       /\ org.read[k].local_path \in files

\* the records whose path the run has changed
Relocated == {k \in 1..Len(org.read) : org.meta[k].local_path # org.read[k].local_path}

\* C34: the moved count is the number of records relocated by the run, each
\* of them with its file at the new path, and the reported categories are
\* the categories of the relocated records, each reported once.
C34_CountsRelocations ==
  org.pc \in {"loop", "write"} =>
    /\ org.result.moved_files = Cardinality(Relocated)
    /\ \A k \in Relocated : org.meta[k].local_path \in files
    /\ Range(org.result.categories_created) = {org.meta[k].category : k \in Relocated}
    /\ Len(org.result.categories_created)
         = Cardinality(Range(org.result.categories_created))

\* two files relocated into one category, reported once
C34_Witness ==
  /\ org.pc = "write"
  /\ org.result.moved_files = 2
  /\ Len(org.result.categories_created) = 1
  /\ Cardinality(Relocated) = 2

\* C35: every ledger record has the path that its category and filename
\* give: <category directory, filename>, the root directory when the record
\* has no category.
C35_PathFollowsCategory ==
  \A k \in 1..Len(Ledger) :
    Ledger[k].local_path = <<Ledger[k].category, Ledger[k].filename>>

\* a fetch into a category was recorded and a categorize run then relocated
\* a file and wrote the ledger
C35_Witness ==
  /\ org.pc = "done"
  /\ org.fault = ""
  /\ org.result.moved_files >= 1
  /\ \E k \in 1..Len(Ledger) : Ledger[k].category # ""
  /\ \E t \in 1..Len(tasks) :
       Written(t) /\ tasks[t].category # "" /\ HasRecord(tasks[t].vid)

(***************************************************************************)
(* batchFetch's filter and list.                                            *)
(***************************************************************************)

\* the three tests of a filter block on asset i
PassesBlock(i, c) ==
  /\ c.min_width # 0 => Video(i).width >= c.min_width
  /\ c.min_height # 0 => Video(i).height >= c.min_height
  /\ c.preferred_fps # 0 =>
       \E k \in 1..Len(Video(i).video_files) :
         Video(i).video_files[k].fps = c.preferred_fps
  /\ i \notin c.exclude_ids

AskedLimit == IF call.options.limit = <<>> THEN 50 ELSE call.options.limit[1]

\* the key a call of list asked for
AskedKey == IF call.options.sort_by = "" THEN "date" ELSE call.options.sort_by

\* C37: list returns at most limit records (50 without a limit), all of them
\* ledger records of the requested category when one is given, ordered by
\* the chosen key: newest, largest or longest first, or by ascending
\* filename.
C37_List ==
  (call.fn = "listDownloaded" /\ ~call.fault) =>
    /\ Len(call.out) <= AskedLimit
    /\ call.file = <<>> => call.out = <<>>
    /\ call.file # <<>> => Range(call.out) \subseteq Range(call.file[1])
    /\ call.options.category # "" =>
         \A k \in 1..Len(call.out) : call.out[k].category = call.options.category
    /\ \A k \in 1..(Len(call.out) - 1) :
         IF AskedKey = "date"
         THEN call.out[k].download_date >= call.out[k + 1].download_date
         ELSE IF AskedKey = "size"
         THEN call.out[k].file_size >= call.out[k + 1].file_size
         ELSE IF AskedKey = "duration"
         THEN call.out[k].pexels_metadata.duration
                >= call.out[k + 1].pexels_metadata.duration
         ELSE call.out[k].filename <= call.out[k + 1].filename

====
